---------------------------- MODULE Spec2Model ----------------------------
(***************************************************************************)
(* Double-entry journal balance engine of savzmanajemen                    *)
(* (src/src/utils/journalBalance.ts): isJournalBalanced,                   *)
(* getAccountBalances and verifyAccountingEquation, over decimal.js        *)
(* Decimal values.                                                         *)
(*                                                                         *)
(* A Decimal is modelled as [c |-> coefficient, e |-> exponent], the value *)
(* c * 10^e, kept normalised as decimal.js keeps its digits (no trailing   *)
(* zero digit, zero is [c |-> 0, e |-> 0]).  A JavaScript number amount is *)
(* given by its decimal literal in the same form; `new Decimal(number)`    *)
(* reads that literal.  decimal.js rounds the result of plus/minus to      *)
(* Decimal.precision (20) significant digits; every value of this model    *)
(* has far fewer digits, so plus and minus are the exact sum and           *)
(* difference here.                                                        *)
(***************************************************************************)
EXTENDS Integers, Sequences, FiniteSets, TLC

VARIABLES entries, accountTypes, op, returned, balances, totals, raised,
          heap, allocated, frames, pass,
          accounts, journal_entries, payment_methods, transactions

(* The tables of the database.                                             *)
dbVars == <<accounts, journal_entries, payment_methods, transactions>>

vars ==
  <<entries, accountTypes, op, returned, balances, totals, raised,
    heap, allocated, frames, pass, dbVars>>

(***************************************************************************)
(* Bounds of the model.                                                    *)
(***************************************************************************)
MaxLen == 2

(* The longest entry list of SpecNum.                                      *)
MaxTerms == 3

(* The longest entry list of SpecCalls and SpecAny.                        *)
MaxCallLen == 1

(* The most rows of journal_entries in SpecLedger.                         *)
MaxRows == 2

(* The most rows of transactions in SpecPay.                               *)
MaxTx == 2

(* The longest entry list of an invocation of SpecPar.                     *)
MaxParLen == 2

(* The number of balance objects a behaviour may create.                   *)
MaxObjects == 2

(* Account codes, in the order Object.entries lists integer-like keys.     *)
CodeSeq == <<"1100", "2000", "3000">>

Codes == {CodeSeq[k] : k \in 1..Len(CodeSeq)}

AccountType == {"asset", "liability", "equity", "income", "expense"}

(* The amounts (JavaScript numbers) an entry may carry: -5, 0, 0.1 and 1.  *)
Amounts ==
  { [c |-> -5, e |-> 0], [c |-> 0, e |-> 0], [c |-> 1, e |-> -1], [c |-> 1, e |-> 0] }

JournalEntry == [debit_account : Codes, credit_account : Codes, amount : Amounts]

(* All sequences over S of length at most n.                               *)
SeqsUpTo(S, n) == UNION { [1..k -> S] : k \in 0..n }

(* The entries a journal_entries row gives: amount > 0 (the column's CHECK) *)
(* between two different accounts.                                         *)
ValidEntry ==
  { en \in JournalEntry : en.amount.c > 0 /\ en.debit_account # en.credit_account }

(* The classifications a caller may pass: total or partial maps.           *)
Classifications == UNION { [S -> AccountType] : S \in SUBSET Codes }

(***************************************************************************)
(* decimal.js                                                              *)
(***************************************************************************)
RECURSIVE Pow10(_)
Pow10(n) == IF n <= 0 THEN 1 ELSE 10 * Pow10(n - 1)

RECURSIVE Normalise(_, _)
Normalise(c, e) ==
  IF c = 0 THEN [c |-> 0, e |-> 0]
  ELSE IF c % 10 = 0 THEN Normalise(c \div 10, e + 1)
  ELSE [c |-> c, e |-> e]

(* Variant: a fractional amount carried with a representation error, as a  *)
(* binary fraction carries it.                                             *)
Decimal_representationError(n) ==
  IF n.e < 0 /\ n.c # 0 THEN [c |-> n.c * 1000 + 1, e |-> n.e - 3]
  ELSE Normalise(n.c, n.e)

(* new Decimal(n) *)
Decimal(n) == Normalise(n.c, n.e)

Zero == Decimal([c |-> 0, e |-> 0])

Min(a, b) == IF a <= b THEN a ELSE b

(* x.plus(y): the digits are aligned on the smaller exponent and added.    *)
plus(x, y) ==
  LET e == Min(x.e, y.e)
  IN  Normalise(x.c * Pow10(x.e - e) + y.c * Pow10(y.e - e), e)

(* x.negated() *)
negated(x) == [c |-> -x.c, e |-> x.e]

(* Variant: a subtraction that never goes below zero.                      *)
minus_clampedAtZero(x, y) ==
  LET e == Min(x.e, y.e)
      d == x.c * Pow10(x.e - e) - y.c * Pow10(y.e - e)
  IN  Normalise(IF d < 0 THEN 0 ELSE d, e)

(* x.minus(y) *)
minus(x, y) ==
  LET e == Min(x.e, y.e)
  IN  Normalise(x.c * Pow10(x.e - e) - y.c * Pow10(y.e - e), e)

(* Variant: a comparison that accepts any difference below one whole.      *)
equals_withTolerance(x, y) ==
  LET e == Min(Min(x.e, y.e), 0)
      d == x.c * Pow10(x.e - e) - y.c * Pow10(y.e - e)
  IN  d < Pow10(0 - e) /\ (0 - d) < Pow10(0 - e)

(* x.equals(y): same sign, same exponent, same digits.                     *)
equals(x, y) == x.c = y.c /\ x.e = y.e

(***************************************************************************)
(* isJournalBalanced                                                       *)
(***************************************************************************)
(* entries.reduce((sum, entry) => sum.plus(entry.amount), sum0)            *)
RECURSIVE reduceAmounts(_, _)
reduceAmounts(es, sum) ==
  IF es = <<>> THEN sum
  ELSE reduceAmounts(Tail(es), plus(sum, Decimal(Head(es).amount)))

totalDebit(es) == reduceAmounts(es, Zero)

(* Variant: the credit total accumulated with the opposite sign.           *)
totalCredit_subtracted(es) == negated(reduceAmounts(es, Zero))

(* Variant: the credit total counts only entries between two different    *)
(* accounts.                                                               *)
totalCredit_distinctAccountsOnly(es) ==
  reduceAmounts(SelectSeq(es, LAMBDA en : en.debit_account # en.credit_account), Zero)

totalCredit(es) == reduceAmounts(es, Zero)

(* Variant: an empty journal reported as not balanced.                     *)
isJournalBalanced_requiresEntries(es) ==
  es # <<>> /\ equals(totalDebit(es), totalCredit(es))

isJournalBalanced(es) == equals(totalDebit(es), totalCredit(es))

(***************************************************************************)
(* getAccountBalances                                                      *)
(***************************************************************************)
(* The empty Record<string, Decimal>.                                      *)
NoBalances == [a \in {} |-> Zero]

(* Property names that the object literal {} inherits from                 *)
(* Object.prototype and that fit accounts.code (varchar(10)); one stands   *)
(* for all of them (toString, valueOf, __proto__, ...).                    *)
InheritedKeys == {"toString"}

(* if (!balances[code]) balances[code] = new Decimal(0): a Decimal object  *)
(* is truthy whatever its value, and so is an inherited function, so only  *)
(* a key that is neither present nor inherited is initialised.             *)
(* Variant: the initialisation without its guard, resetting the account.   *)
initAccount_unguarded(b, code) ==
  [a \in (DOMAIN b) \cup {code} |-> IF a = code THEN Zero ELSE b[a]]

(* Variant: the first initialisation creates every account of the chart.   *)
initAccount_wholeChart(b, code) ==
  IF code \in DOMAIN b THEN b
  ELSE [a \in (DOMAIN b) \cup Codes |-> IF a \in DOMAIN b THEN b[a] ELSE Zero]

initAccount(b, code) ==
  IF code \in DOMAIN b \/ code \in InheritedKeys THEN b
  ELSE [a \in (DOMAIN b) \cup {code} |-> IF a = code THEN Zero ELSE b[a]]

(* Variant: the credit side added instead of subtracted.                   *)
postEntry_creditAdded(b, entry) ==
  LET debitCode  == entry.debit_account
      creditCode == entry.credit_account
      amount     == Decimal(entry.amount)
      b1 == initAccount(b, debitCode)
      b2 == initAccount(b1, creditCode)
      b3 == [b2 EXCEPT ![debitCode] = plus(b2[debitCode], amount)]
  IN  [b3 EXCEPT ![creditCode] = plus(b3[creditCode], amount)]

(* Variant: the debit side subtracted and the credit side added.           *)
postEntry_sidesSwapped(b, entry) ==
  LET debitCode  == entry.debit_account
      creditCode == entry.credit_account
      amount     == Decimal(entry.amount)
      b1 == initAccount(b, debitCode)
      b2 == initAccount(b1, creditCode)
      b3 == [b2 EXCEPT ![debitCode] = minus(b2[debitCode], amount)]
  IN  [b3 EXCEPT ![creditCode] = plus(b3[creditCode], amount)]

(* Variant: an entry whose amount is zero is skipped altogether.           *)
postEntry_skipsZeroAmount(b, entry) ==
  LET debitCode  == entry.debit_account
      creditCode == entry.credit_account
      amount     == Decimal(entry.amount)
      b1 == initAccount(b, debitCode)
      b2 == initAccount(b1, creditCode)
      b3 == [b2 EXCEPT ![debitCode] = plus(b2[debitCode], amount)]
  IN  IF amount.c = 0 THEN b
      ELSE [b3 EXCEPT ![creditCode] = minus(b3[creditCode], amount)]

(* Variant: both balances read before either is written.                   *)
postEntry_readsBeforeWrites(b, entry) ==
  LET debitCode  == entry.debit_account
      creditCode == entry.credit_account
      amount     == Decimal(entry.amount)
      b1 == initAccount(b, debitCode)
      b2 == initAccount(b1, creditCode)
      newDebit  == plus(b2[debitCode], amount)
      newCredit == minus(b2[creditCode], amount)
  IN  [a \in DOMAIN b2 |-> IF a = creditCode THEN newCredit
                           ELSE IF a = debitCode THEN newDebit ELSE b2[a]]

(* Variant: the amount posted without its sign.                            *)
postEntry_absoluteAmount(b, entry) ==
  LET debitCode  == entry.debit_account
      creditCode == entry.credit_account
      amount     == Decimal([c |-> IF entry.amount.c < 0 THEN 0 - entry.amount.c
                                   ELSE entry.amount.c,
                             e |-> entry.amount.e])
      b1 == initAccount(b, debitCode)
      b2 == initAccount(b1, creditCode)
      b3 == [b2 EXCEPT ![debitCode] = plus(b2[debitCode], amount)]
  IN  [b3 EXCEPT ![creditCode] = minus(b3[creditCode], amount)]

(* The body of the forEach callback, for one entry.                        *)
postEntry(b, entry) ==
  LET debitCode  == entry.debit_account
      creditCode == entry.credit_account
      amount     == Decimal(entry.amount)
      b1 == initAccount(b, debitCode)
      b2 == initAccount(b1, creditCode)
      b3 == [b2 EXCEPT ![debitCode] = plus(b2[debitCode], amount)]
  IN  [b3 EXCEPT ![creditCode] = minus(b3[creditCode], amount)]

RECURSIVE forEachEntry(_, _)
forEachEntry(es, b) ==
  IF es = <<>> THEN b ELSE forEachEntry(Tail(es), postEntry(b, Head(es)))

getAccountBalances(es) == forEachEntry(es, NoBalances)

(* balances[code].plus(amount) / .minus(amount) on lines 34-35: where      *)
(* balances[code] is still not an own key after lines 30-31 it is the      *)
(* inherited function, which has no plus or minus, and the call is a       *)
(* TypeError.                                                              *)
throwsTypeError(b, entry) ==
  LET b2 == initAccount(initAccount(b, entry.debit_account), entry.credit_account)
  IN  entry.debit_account \notin DOMAIN b2 \/ entry.credit_account \notin DOMAIN b2

(* What the forEach of getAccountBalances throws, started on object b.     *)
RECURSIVE thrown(_, _)
thrown(es, b) ==
  IF es = <<>> THEN {}
  ELSE IF throwsTypeError(b, Head(es)) THEN {"TypeError"}
  ELSE thrown(Tail(es), postEntry(b, Head(es)))

(***************************************************************************)
(* The balance objects.  const balances = {} (line 22) creates a new       *)
(* object on every call; heap[r] is the content of the r-th object created *)
(* and allocated counts the objects created so far.                        *)
(***************************************************************************)
Objects == 1..MaxObjects

NoObjects == [r \in Objects |-> NoBalances]

(* Variant: one object created when the module is loaded, used by every    *)
(* call.                                                                   *)
newObject_moduleLevel(n) == 1

newObject(n) == n + 1

(***************************************************************************)
(* verifyAccountingEquation                                                *)
(***************************************************************************)
NoTypes == [a \in {} |-> "asset"]

ZeroTotals ==
  [assets |-> Zero, liabilities |-> Zero, equity |-> Zero, income |-> Zero,
   expenses |-> Zero]

(* Variant: a liability accumulated without the sign flip.                 *)
classify_liabilityNotNegated(t, accountCode, balance, types) ==
  IF accountCode \notin DOMAIN types THEN t
  ELSE CASE types[accountCode] = "asset" ->
              [t EXCEPT !.assets = plus(t.assets, balance)]
         [] types[accountCode] = "liability" ->
              [t EXCEPT !.liabilities = plus(t.liabilities, balance)]
         [] types[accountCode] = "equity" ->
              [t EXCEPT !.equity = plus(t.equity, negated(balance))]
         [] types[accountCode] = "income" ->
              [t EXCEPT !.income = plus(t.income, negated(balance))]
         [] types[accountCode] = "expense" ->
              [t EXCEPT !.expenses = plus(t.expenses, balance)]
         [] OTHER -> t

(* Variant: income accumulated without the sign flip.                      *)
classify_incomeNotNegated(t, accountCode, balance, types) ==
  IF accountCode \notin DOMAIN types THEN t
  ELSE CASE types[accountCode] = "asset" ->
              [t EXCEPT !.assets = plus(t.assets, balance)]
         [] types[accountCode] = "liability" ->
              [t EXCEPT !.liabilities = plus(t.liabilities, negated(balance))]
         [] types[accountCode] = "equity" ->
              [t EXCEPT !.equity = plus(t.equity, negated(balance))]
         [] types[accountCode] = "income" ->
              [t EXCEPT !.income = plus(t.income, balance)]
         [] types[accountCode] = "expense" ->
              [t EXCEPT !.expenses = plus(t.expenses, balance)]
         [] OTHER -> t

(* Variant: an account with no type falls into the asset case.             *)
classify_unclassifiedAsAsset(t, accountCode, balance, types) ==
  IF accountCode \notin DOMAIN types
  THEN [t EXCEPT !.assets = plus(t.assets, balance)]
  ELSE CASE types[accountCode] = "asset" ->
              [t EXCEPT !.assets = plus(t.assets, balance)]
         [] types[accountCode] = "liability" ->
              [t EXCEPT !.liabilities = plus(t.liabilities, negated(balance))]
         [] types[accountCode] = "equity" ->
              [t EXCEPT !.equity = plus(t.equity, negated(balance))]
         [] types[accountCode] = "income" ->
              [t EXCEPT !.income = plus(t.income, negated(balance))]
         [] types[accountCode] = "expense" ->
              [t EXCEPT !.expenses = plus(t.expenses, balance)]
         [] OTHER -> t

(* The switch on accountTypes[accountCode]; an account with no type        *)
(* matches no case.                                                        *)
classify(t, accountCode, balance, types) ==
  IF accountCode \notin DOMAIN types THEN t
  ELSE CASE types[accountCode] = "asset" ->
              [t EXCEPT !.assets = plus(t.assets, balance)]
         [] types[accountCode] = "liability" ->
              [t EXCEPT !.liabilities = plus(t.liabilities, negated(balance))]
         [] types[accountCode] = "equity" ->
              [t EXCEPT !.equity = plus(t.equity, negated(balance))]
         [] types[accountCode] = "income" ->
              [t EXCEPT !.income = plus(t.income, negated(balance))]
         [] types[accountCode] = "expense" ->
              [t EXCEPT !.expenses = plus(t.expenses, balance)]
         [] OTHER -> t

(* Variant: the pass also visits accounts that are classified but absent   *)
(* from the balances, counting each with a balance of one.                 *)
RECURSIVE forEachBalance_overClassification(_, _, _, _)
forEachBalance_overClassification(k, b, types, t) ==
  IF k > Len(CodeSeq) THEN t
  ELSE IF CodeSeq[k] \in DOMAIN b
       THEN forEachBalance_overClassification(k + 1, b, types,
                           classify(t, CodeSeq[k], b[CodeSeq[k]], types))
       ELSE forEachBalance_overClassification(k + 1, b, types,
                           classify(t, CodeSeq[k], Decimal([c |-> 1, e |-> 0]), types))

(* Object.entries(balances).forEach(...), over the keys in CodeSeq order.  *)
RECURSIVE forEachBalance(_, _, _, _)
forEachBalance(k, b, types, t) ==
  IF k > Len(CodeSeq) THEN t
  ELSE IF CodeSeq[k] \in DOMAIN b
       THEN forEachBalance(k + 1, b, types,
                           classify(t, CodeSeq[k], b[CodeSeq[k]], types))
       ELSE forEachBalance(k + 1, b, types, t)

accumulate(es, types) == forEachBalance(1, getAccountBalances(es), types, ZeroTotals)

leftSide(t) == t.assets

(* Variant: expenses added to the right side instead of subtracted.        *)
rightSide_expensesAdded(t) ==
  plus(plus(t.liabilities, t.equity), plus(t.income, t.expenses))

rightSide(t) == plus(plus(t.liabilities, t.equity), minus(t.income, t.expenses))

verifyAccountingEquation(es, types) ==
  LET t == accumulate(es, types) IN equals(leftSide(t), rightSide(t))

(***************************************************************************)
(* The calls.  Each action is one call of an exported function on the      *)
(* caller's entry list; `raised` collects what the call throws or logs     *)
(* (the functions have no throw and no log statement).                     *)
(***************************************************************************)
(* Variant: an iteration that advances by two elements.                    *)
nextIndex_skipping(i) == i + 2

(* forEach and reduce go from one element of the array to the next.        *)
nextIndex(i) == i + 1

(* Object.entries(balances): the keys of b, in CodeSeq order.              *)
keysOf(b) == SelectSeq(CodeSeq, LAMBDA c : c \in DOMAIN b)

(* No step-by-step call in progress.                                       *)
NoPass ==
  [fn |-> "none", pc |-> "idle", i |-> 0, j |-> 0,
   debit |-> Zero, credit |-> Zero, b |-> NoBalances, t |-> ZeroTotals,
   runs |-> <<>>, visits |-> [a \in Codes |-> 0]]

(* The tables left out: no row in any of them.                             *)
NoTables ==
  /\ accounts = <<>>
  /\ journal_entries = <<>>
  /\ payment_methods = <<>>
  /\ transactions = <<>>

Invocations == {1, 2}

(* No invocation in progress.                                              *)
NoFrames == [k \in Invocations |-> [es |-> <<>>, i |-> 0, ref |-> 0]]

Init ==
  /\ entries \in SeqsUpTo(JournalEntry, MaxLen)
  /\ accountTypes = NoTypes
  /\ op = "none"
  /\ returned = "none"
  /\ balances = NoBalances
  /\ totals = ZeroTotals
  /\ raised = {}
  /\ heap = NoObjects
  /\ allocated = 0
  /\ frames = NoFrames
  /\ pass = NoPass
  /\ NoTables

CallIsJournalBalanced ==
  /\ op' = "isJournalBalanced"
  /\ returned' = isJournalBalanced(entries)
  /\ accountTypes' = NoTypes
  /\ balances' = NoBalances
  /\ totals' = ZeroTotals
  /\ raised' = {}
  /\ UNCHANGED <<entries, heap, allocated, frames, pass, dbVars>>

CallGetAccountBalances ==
  /\ allocated < MaxObjects
  /\ LET ref == newObject(allocated)
         err == thrown(entries, heap[ref])
     IN  /\ allocated' = allocated + 1
         /\ raised' = err
         /\ IF err = {}
            THEN /\ heap' = [heap EXCEPT ![ref] = forEachEntry(entries, heap[ref])]
                 /\ balances' = heap'[ref]
                 /\ returned' = "balances"
            ELSE /\ heap' = heap
                 /\ balances' = NoBalances
                 /\ returned' = "TypeError"
  /\ op' = "getAccountBalances"
  /\ accountTypes' = NoTypes
  /\ totals' = ZeroTotals
  /\ UNCHANGED <<entries, frames, pass, dbVars>>

Next == CallIsJournalBalanced \/ CallGetAccountBalances

Spec == Init /\ [][Next]_vars

(* A single call of either function on the caller's list.                  *)
NextOnce ==
  \/ op = "none" /\ CallIsJournalBalanced
  \/ op = "none" /\ CallGetAccountBalances

SpecOnce == Init /\ [][NextOnce]_vars

(***************************************************************************)
(* The same two calls on longer lists of valid entries, for the sums of    *)
(* several fractional amounts.                                             *)
(***************************************************************************)
InitNum ==
  /\ entries \in SeqsUpTo(ValidEntry, MaxTerms)
  /\ accountTypes = NoTypes
  /\ op = "none"
  /\ returned = "none"
  /\ balances = NoBalances
  /\ totals = ZeroTotals
  /\ raised = {}
  /\ heap = NoObjects
  /\ allocated = 0
  /\ frames = NoFrames
  /\ pass = NoPass
  /\ NoTables

SpecNum == InitNum /\ [][Next]_vars

(***************************************************************************)
(* The equation check, called with any classification on a list of valid   *)
(* entries.  `balances` and `totals` keep the call's local balances and    *)
(* running totals.                                                         *)
(***************************************************************************)
InitEq ==
  /\ entries \in SeqsUpTo(ValidEntry, MaxLen)
  /\ accountTypes = NoTypes
  /\ op = "none"
  /\ returned = "none"
  /\ balances = NoBalances
  /\ totals = ZeroTotals
  /\ raised = {}
  /\ heap = NoObjects
  /\ allocated = 0
  /\ frames = NoFrames
  /\ pass = NoPass
  /\ NoTables

CallVerifyAccountingEquation ==
  \E types \in Classifications :
    /\ op # "verifyAccountingEquation"
    /\ allocated < MaxObjects
    /\ LET ref == newObject(allocated)
           err == thrown(entries, heap[ref])
       IN  /\ allocated' = allocated + 1
           /\ raised' = err
           /\ IF err = {}
              THEN /\ heap' = [heap EXCEPT ![ref] = forEachEntry(entries, heap[ref])]
                   /\ balances' = heap'[ref]
                   /\ totals' = forEachBalance(1, heap'[ref], types, ZeroTotals)
                   /\ returned' = equals(leftSide(totals'), rightSide(totals'))
              ELSE /\ heap' = heap
                   /\ balances' = NoBalances
                   /\ totals' = ZeroTotals
                   /\ returned' = "TypeError"
    /\ op' = "verifyAccountingEquation"
    /\ accountTypes' = types
    /\ UNCHANGED <<entries, frames, pass, dbVars>>

NextEq == CallVerifyAccountingEquation

SpecEq == InitEq /\ [][NextEq]_vars

(***************************************************************************)
(* Any sequence of calls of the three functions on one list of valid       *)
(* entries.                                                                *)
(***************************************************************************)
InitCalls ==
  /\ entries \in SeqsUpTo(ValidEntry, MaxCallLen)
  /\ accountTypes = NoTypes
  /\ op = "none"
  /\ returned = "none"
  /\ balances = NoBalances
  /\ totals = ZeroTotals
  /\ raised = {}
  /\ heap = NoObjects
  /\ allocated = 0
  /\ frames = NoFrames
  /\ pass = NoPass
  /\ NoTables

NextCalls ==
  \/ CallIsJournalBalanced
  \/ CallGetAccountBalances
  \/ CallVerifyAccountingEquation

SpecCalls == InitCalls /\ [][NextCalls]_vars

(***************************************************************************)
(* The calls on entries that are well typed (a string code on each side, a *)
(* number >= 0 as amount), whatever the strings.                           *)
(***************************************************************************)
AnyCode == {CodeSeq[1], CodeSeq[2]} \cup InheritedKeys

WellTyped ==
  { en \in [debit_account : AnyCode, credit_account : AnyCode, amount : Amounts] :
      en.amount.c >= 0 /\ en.debit_account # en.credit_account }

InitAny ==
  /\ entries \in SeqsUpTo(WellTyped, MaxCallLen)
  /\ accountTypes = NoTypes
  /\ op = "none"
  /\ returned = "none"
  /\ balances = NoBalances
  /\ totals = ZeroTotals
  /\ raised = {}
  /\ heap = NoObjects
  /\ allocated = 0
  /\ frames = NoFrames
  /\ pass = NoPass
  /\ NoTables

SpecAny == InitAny /\ [][NextCalls]_vars

(***************************************************************************)
(* Two invocations of getAccountBalances on different lists, their         *)
(* per-entry steps (one run of the forEach callback) interleaved in any    *)
(* order.  frames[k] is invocation k's local state: its list es, the       *)
(* number i of entries done, and ref, its `balances` object (0 before      *)
(* line 22 has run).                                                       *)
(***************************************************************************)
ParEntry ==
  { en \in ValidEntry : en.debit_account = CodeSeq[1] }

InitPar ==
  /\ entries = <<>>
  /\ accountTypes = NoTypes
  /\ op = "none"
  /\ returned = "none"
  /\ balances = NoBalances
  /\ totals = ZeroTotals
  /\ raised = {}
  /\ heap = NoObjects
  /\ allocated = 0
  /\ pass = NoPass
  /\ NoTables
  /\ \E es1 \in SeqsUpTo(ParEntry, MaxParLen), es2 \in SeqsUpTo(ParEntry, MaxParLen) :
       /\ es1 # es2
       /\ frames = [k \in Invocations |->
                      [es |-> IF k = 1 THEN es1 ELSE es2, i |-> 0, ref |-> 0]]

(* const balances = {} in invocation k.                                    *)
Begin(k) ==
  /\ frames[k].ref = 0
  /\ allocated < MaxObjects
  /\ allocated' = allocated + 1
  /\ frames' = [frames EXCEPT ![k].ref = newObject(allocated)]
  /\ UNCHANGED <<entries, accountTypes, op, returned, balances, totals, raised, heap,
               pass, dbVars>>

(* One run of the forEach callback in invocation k.                        *)
Step(k) ==
  /\ frames[k].ref # 0
  /\ frames[k].i < Len(frames[k].es)
  /\ heap' = [heap EXCEPT ![frames[k].ref] =
                postEntry(heap[frames[k].ref], frames[k].es[frames[k].i + 1])]
  /\ frames' = [frames EXCEPT ![k].i = nextIndex(frames[k].i)]
  /\ UNCHANGED <<entries, accountTypes, op, returned, balances, totals, raised, allocated,
               pass, dbVars>>

NextPar == \E k \in Invocations : Begin(k) \/ Step(k)

SpecPar == InitPar /\ [][NextPar]_vars

(***************************************************************************)
(* One call of one of the three functions, taken one array element at a    *)
(* time: the two reduce calls of isJournalBalanced, the forEach over the   *)
(* entries of getAccountBalances, and in verifyAccountingEquation that     *)
(* forEach followed by the forEach over Object.entries(balances).          *)
(* pass.runs[i] counts the runs of the entry callback on entry i and       *)
(* pass.visits[a] the runs of the account callback on account a.           *)
(***************************************************************************)
Functions == {"isJournalBalanced", "getAccountBalances", "verifyAccountingEquation"}

(* Classifications that leave an account out or make it an asset or equity. *)
PassClassifications ==
  { types \in Classifications : \A a \in DOMAIN types : types[a] \in {"asset", "equity"} }

InitPass ==
  /\ entries \in SeqsUpTo(ValidEntry, MaxCallLen)
  /\ accountTypes = NoTypes
  /\ op = "none"
  /\ returned = "none"
  /\ balances = NoBalances
  /\ totals = ZeroTotals
  /\ raised = {}
  /\ heap = NoObjects
  /\ allocated = 0
  /\ frames = NoFrames
  /\ pass = NoPass
  /\ NoTables

passFrame ==
  <<entries, op, returned, balances, totals, raised, heap, allocated, frames, dbVars>>

(* The call: the accumulators of the function are created.                 *)
PassStart(fn, types) ==
  /\ pass.pc = "idle"
  /\ accountTypes' = IF fn = "verifyAccountingEquation" THEN types ELSE NoTypes
  /\ pass' = [NoPass EXCEPT !.fn = fn,
                             !.pc = IF fn = "isJournalBalanced" THEN "totalDebit"
                                    ELSE "entries",
                             !.runs = [i \in 1..Len(entries) |-> 0]]
  /\ UNCHANGED passFrame

(* One run of a reduce callback of isJournalBalanced.                      *)
PassReduce ==
  /\ pass.pc \in {"totalDebit", "totalCredit"}
  /\ pass.i < Len(entries)
  /\ pass' = IF pass.pc = "totalDebit"
             THEN [pass EXCEPT !.debit = plus(pass.debit, Decimal(entries[pass.i + 1].amount)),
                               !.i = nextIndex(pass.i)]
             ELSE [pass EXCEPT !.credit = plus(pass.credit, Decimal(entries[pass.i + 1].amount)),
                               !.i = nextIndex(pass.i)]
  /\ UNCHANGED <<accountTypes, passFrame>>

(* The first reduce has returned; the second starts.                       *)
PassSecondReduce ==
  /\ pass.pc = "totalDebit"
  /\ pass.i = Len(entries)
  /\ pass' = [pass EXCEPT !.pc = "totalCredit", !.i = 0]
  /\ UNCHANGED <<accountTypes, passFrame>>

(* One run of the entry callback of getAccountBalances.                    *)
PassEntry ==
  /\ pass.pc = "entries"
  /\ pass.i < Len(entries)
  /\ pass' = [pass EXCEPT !.b = postEntry(pass.b, entries[pass.i + 1]),
                          !.runs[pass.i + 1] = pass.runs[pass.i + 1] + 1,
                          !.i = nextIndex(pass.i)]
  /\ UNCHANGED <<accountTypes, passFrame>>

(* getAccountBalances has returned inside verifyAccountingEquation.        *)
PassSecondForEach ==
  /\ pass.fn = "verifyAccountingEquation"
  /\ pass.pc = "entries"
  /\ pass.i = Len(entries)
  /\ pass' = [pass EXCEPT !.pc = "accounts"]
  /\ UNCHANGED <<accountTypes, passFrame>>

(* One run of the account callback of verifyAccountingEquation.            *)
PassAccount ==
  /\ pass.pc = "accounts"
  /\ pass.j < Len(keysOf(pass.b))
  /\ LET accountCode == keysOf(pass.b)[pass.j + 1]
     IN  pass' = [pass EXCEPT !.t = classify(pass.t, accountCode, pass.b[accountCode],
                                            accountTypes),
                              !.visits[accountCode] = pass.visits[accountCode] + 1,
                              !.j = nextIndex(pass.j)]
  /\ UNCHANGED <<accountTypes, passFrame>>

(* The return statement of the function called.                            *)
PassReturn ==
  /\ \/ pass.pc = "totalCredit" /\ pass.i = Len(entries)
     \/ pass.fn = "getAccountBalances" /\ pass.pc = "entries" /\ pass.i = Len(entries)
     \/ pass.pc = "accounts" /\ pass.j = Len(keysOf(pass.b))
  /\ pass' = [pass EXCEPT !.pc = "done"]
  /\ op' = pass.fn
  /\ returned' = CASE pass.fn = "isJournalBalanced" -> equals(pass.debit, pass.credit)
                   [] pass.fn = "getAccountBalances" -> "balances"
                   [] OTHER -> equals(leftSide(pass.t), rightSide(pass.t))
  /\ balances' = pass.b
  /\ totals' = pass.t
  /\ raised' = {}
  /\ UNCHANGED <<entries, accountTypes, heap, allocated, frames, dbVars>>

NextPass ==
  \/ \E fn \in Functions, types \in PassClassifications : PassStart(fn, types)
  \/ PassReduce
  \/ PassSecondReduce
  \/ PassEntry
  \/ PassSecondForEach
  \/ PassAccount
  \/ PassReturn

(* A call that has started runs until it returns.                          *)
SpecPass == InitPass /\ [][NextPass]_vars /\ WF_vars(NextPass)

(***************************************************************************)
(* The ledger tables and recalculate_all_balances.  A numeric(15,2) value  *)
(* is the integer number of its hundredths; a uuid is a short string and   *)
(* NULL the absent reference.                                              *)
(***************************************************************************)
NULL == "NULL"

AccountIds == {"A1", "A2"}

(* Balances an account row may hold before the recalculation.              *)
StoredBalances == {0, 7}

(* accounts: normal_balance CHECK IN ('debit', 'credit'), balance.         *)
AccountRows == [normal_balance : {"debit", "credit"}, balance : StoredBalances]

(* journal_entries: two nullable references to accounts, amount > 0.       *)
JournalRows ==
  [debit_account_id : AccountIds \cup {NULL},
   credit_account_id : AccountIds \cup {NULL},
   amount : {1, 2}]

(* COALESCE(SUM(amount), 0) over the rows.                                 *)
RECURSIVE SumAmount(_)
SumAmount(rows) ==
  IF rows = <<>> THEN 0 ELSE Head(rows).amount + SumAmount(Tail(rows))

debit_total(je, id) ==
  SumAmount(SelectSeq(je, LAMBDA row : row.debit_account_id = id))

credit_total(je, id) ==
  SumAmount(SelectSeq(je, LAMBDA row : row.credit_account_id = id))

(* Variant: every account calculated as a debit-normal account.            *)
calculated_balance_debitNormalOnly(normal_balance, debits, credits) ==
  debits - credits

calculated_balance(normal_balance, debits, credits) ==
  IF normal_balance = "debit" THEN debits - credits ELSE credits - debits

(* The loop over all accounts, with its UPDATE of each.                    *)
recalculate_all_balances(acc, je) ==
  [id \in DOMAIN acc |->
     [acc[id] EXCEPT !.balance =
        calculated_balance(acc[id].normal_balance,
                           debit_total(je, id), credit_total(je, id))]]

(* The variables of the balance engine, which the database leaves alone.   *)
engineFrame ==
  <<entries, accountTypes, returned, balances, totals, raised, heap, allocated,
    frames, pass>>

InitLedger ==
  /\ entries = <<>>
  /\ accountTypes = NoTypes
  /\ op = "none"
  /\ returned = "none"
  /\ balances = NoBalances
  /\ totals = ZeroTotals
  /\ raised = {}
  /\ heap = NoObjects
  /\ allocated = 0
  /\ frames = NoFrames
  /\ pass = NoPass
  /\ accounts \in [AccountIds -> AccountRows]
  /\ journal_entries = <<>>
  /\ payment_methods = <<>>
  /\ transactions = <<>>

InsertJournalEntry(row) ==
  /\ Len(journal_entries) < MaxRows
  /\ journal_entries' = Append(journal_entries, row)
  /\ op' = "INSERT journal_entries"
  /\ UNCHANGED <<engineFrame, accounts, payment_methods, transactions>>

RecalculateAllBalances ==
  /\ accounts' = recalculate_all_balances(accounts, journal_entries)
  /\ op' = "recalculate_all_balances"
  /\ UNCHANGED <<engineFrame, journal_entries, payment_methods, transactions>>

NextLedger ==
  \/ \E row \in JournalRows : InsertJournalEntry(row)
  \/ RecalculateAllBalances

SpecLedger == InitLedger /\ [][NextLedger]_vars

(***************************************************************************)
(* payment_methods, transactions and the trigger function                  *)
(* update_payment_method_balance (AFTER INSERT OR UPDATE, FOR EACH ROW).   *)
(***************************************************************************)
MethodIds == {"P1", "P2"}

(* The balance of each payment method before any transaction.              *)
InitialBalance == [id \in MethodIds |-> IF id = "P1" THEN 0 ELSE 10]

(* transactions: nullable payment_method_id, type CHECK IN (...), amount   *)
(* NOT NULL of either sign.                                                *)
TransactionRows ==
  [payment_method_id : MethodIds \cup {NULL},
   type : {"income", "expense", "capital"},
   amount : {-3, 2, 5}]

(* UPDATE payment_methods SET balance = balance + delta WHERE id = id:     *)
(* no row matches a NULL id.                                               *)
addToBalance(pm, id, delta) ==
  IF id \in DOMAIN pm THEN [pm EXCEPT ![id].balance = pm[id].balance + delta] ELSE pm

(* The branch on NEW.type that applies a row.                              *)
applyRow(pm, row) ==
  IF row.type = "income" \/ row.type = "capital"
  THEN addToBalance(pm, row.payment_method_id, row.amount)
  ELSE IF row.type = "expense"
       THEN addToBalance(pm, row.payment_method_id, 0 - row.amount)
       ELSE pm

(* Variant: only income and capital rows are reversed.                     *)
reverseRow_incomeOnly(pm, row) ==
  IF row.type = "income" \/ row.type = "capital"
  THEN addToBalance(pm, row.payment_method_id, 0 - row.amount)
  ELSE pm

(* The branch on OLD.type that reverses a row.                             *)
reverseRow(pm, row) ==
  IF row.type = "income" \/ row.type = "capital"
  THEN addToBalance(pm, row.payment_method_id, 0 - row.amount)
  ELSE IF row.type = "expense"
       THEN addToBalance(pm, row.payment_method_id, row.amount)
       ELSE pm

update_payment_method_balance(TG_OP, old, new, pm) ==
  IF TG_OP = "INSERT" THEN applyRow(pm, new)
  ELSE IF TG_OP = "UPDATE" THEN applyRow(reverseRow(pm, old), new)
  ELSE pm

InitPay ==
  /\ entries = <<>>
  /\ accountTypes = NoTypes
  /\ op = "none"
  /\ returned = "none"
  /\ balances = NoBalances
  /\ totals = ZeroTotals
  /\ raised = {}
  /\ heap = NoObjects
  /\ allocated = 0
  /\ frames = NoFrames
  /\ pass = NoPass
  /\ accounts = <<>>
  /\ journal_entries = <<>>
  /\ payment_methods = [id \in MethodIds |-> [balance |-> InitialBalance[id]]]
  /\ transactions = <<>>

InsertTransaction(new) ==
  /\ Len(transactions) < MaxTx
  /\ transactions' = Append(transactions, new)
  /\ payment_methods' = update_payment_method_balance("INSERT", new, new, payment_methods)
  /\ op' = "INSERT"
  /\ UNCHANGED <<engineFrame, accounts, journal_entries>>

UpdateTransaction(n, new) ==
  /\ n \in 1..Len(transactions)
  /\ transactions' = [transactions EXCEPT ![n] = new]
  /\ payment_methods' =
       update_payment_method_balance("UPDATE", transactions[n], new, payment_methods)
  /\ op' = "UPDATE"
  /\ UNCHANGED <<engineFrame, accounts, journal_entries>>

NextPay ==
  \/ \E new \in TransactionRows : InsertTransaction(new)
  \/ \E n \in 1..MaxTx, new \in TransactionRows : UpdateTransaction(n, new)

SpecPay == InitPay /\ [][NextPay]_vars

(***************************************************************************)
(* What the properties below are stated in: plain integer sums of the      *)
(* amounts, counted in units of the smallest decimal place in use.         *)
(***************************************************************************)
UnitExp == CHOOSE e \in {a.e : a \in Amounts} : \A a \in Amounts : e <= a.e

Units(d) == d.c * Pow10(d.e - UnitExp)

(* The Decimal of n units.                                                 *)
OfUnits(n) == Normalise(n, UnitExp)

RECURSIVE DebitedUnits(_, _)
DebitedUnits(es, a) ==
  IF es = <<>> THEN 0
  ELSE (IF Head(es).debit_account = a THEN Units(Head(es).amount) ELSE 0)
       + DebitedUnits(Tail(es), a)

RECURSIVE CreditedUnits(_, _)
CreditedUnits(es, a) ==
  IF es = <<>> THEN 0
  ELSE (IF Head(es).credit_account = a THEN Units(Head(es).amount) ELSE 0)
       + CreditedUnits(Tail(es), a)

Referenced(es) ==
  {es[i].debit_account : i \in 1..Len(es)} \cup {es[i].credit_account : i \in 1..Len(es)}

WellFormed(es) == \A i \in 1..Len(es) : es[i].amount.c >= 0

SelfReferencing(es) == \E i \in 1..Len(es) : es[i].debit_account = es[i].credit_account

RECURSIVE SumUnits(_, _)
SumUnits(S, b) ==
  IF S = {} THEN 0
  ELSE LET a == CHOOSE x \in S : TRUE IN Units(b[a]) + SumUnits(S \ {a}, b)

(* The sum of the raw balances of the accounts of b that types gives type t. *)
TypeUnits(b, types, t) ==
  SumUnits({a \in (DOMAIN b) \cap (DOMAIN types) : types[a] = t}, b)

Permuted(es, p) == [i \in 1..Len(es) |-> es[p[i]]]

(***************************************************************************)
(* C1: for a list of well-formed entries, getAccountBalances returns for   *)
(* every account the list references exactly the sum of the amounts        *)
(* debiting it minus the sum of the amounts crediting it, with its sign    *)
(* as it is (not normalised by account type).                              *)
(***************************************************************************)
C1_NetBalancePerAccount ==
  (op = "getAccountBalances" /\ WellFormed(entries)) =>
    \A a \in Referenced(entries) :
      /\ a \in DOMAIN balances
      /\ balances[a] = OfUnits(DebitedUnits(entries, a) - CreditedUnits(entries, a))

C1_Witness ==
  /\ op = "getAccountBalances"
  /\ WellFormed(entries)
  /\ \E a \in DOMAIN balances :
       /\ DebitedUnits(entries, a) > 0
       /\ CreditedUnits(entries, a) > DebitedUnits(entries, a)
       /\ balances[a].c < 0
  /\ \E a \in DOMAIN balances : balances[a].c > 0

(***************************************************************************)
(* C2: on a list of well-formed entries with every referenced account      *)
(* classified, verifyAccountingEquation returns true.                      *)
(***************************************************************************)
C2_EquationHoldsWhenAllClassified ==
  (/\ op = "verifyAccountingEquation"
   /\ WellFormed(entries)
   /\ Referenced(entries) \subseteq DOMAIN accountTypes) => returned = TRUE

C2_Witness ==
  /\ op = "verifyAccountingEquation"
  /\ Len(entries) >= 2
  /\ Referenced(entries) \subseteq DOMAIN accountTypes
  /\ \E a \in DOMAIN balances : accountTypes[a] = "asset" /\ balances[a].c # 0
  /\ \E a \in DOMAIN balances : accountTypes[a] = "expense" /\ balances[a].c # 0
  /\ \E a \in DOMAIN balances :
       accountTypes[a] \in {"liability", "equity", "income"} /\ balances[a].c # 0
  /\ returned = TRUE

C4_BalanceReflexivity ==
  (op = "isJournalBalanced" /\ WellFormed(entries)) => returned = TRUE

C4_Witness ==
  /\ op = "isJournalBalanced"
  /\ WellFormed(entries)
  /\ Len(entries) >= 2
  /\ \A i \in 1..Len(entries) : entries[i].amount.c > 0
  /\ returned = TRUE

(***************************************************************************)
(* C5: getAccountBalances on a list with a negative amount ends in the     *)
(* validation failure InvalidAmount and returns no balance mapping.        *)
(***************************************************************************)
C5_NegativeAmountRejected ==
  (op = "getAccountBalances" /\ ~ WellFormed(entries)) =>
    ("InvalidAmount" \in raised /\ returned # "balances")

(***************************************************************************)
(* C6: isJournalBalanced does not return true on a list with a negative    *)
(* amount.                                                                 *)
(***************************************************************************)
C6_MalformedInputFails ==
  (op = "isJournalBalanced" /\ ~ WellFormed(entries)) =>
    (returned # TRUE \/ raised # {})

(***************************************************************************)
(* C7: no operation accepts a list with an entry whose debit and credit    *)
(* account are the same without raising or flagging SelfReferencingEntry.  *)
(***************************************************************************)
C7_SelfReferencingFlagged ==
  (op # "none" /\ SelfReferencing(entries)) => "SelfReferencingEntry" \in raised

(***************************************************************************)
(* C8: the keys of the mapping getAccountBalances returns are exactly the  *)
(* account codes some entry of the list debits or credits.                 *)
(***************************************************************************)
C8_KeysAreReferencedAccounts ==
  op = "getAccountBalances" => DOMAIN balances = Referenced(entries)

C8_Witness ==
  /\ op = "getAccountBalances"
  /\ Len(entries) >= 2
  /\ \E a \in DOMAIN balances : balances[a].c = 0 /\ DebitedUnits(entries, a) > 0
  /\ Codes \ DOMAIN balances # {}

(***************************************************************************)
(* C9: getAccountBalances returns the same mapping (same keys, same        *)
(* balance per key) for every permutation of the entry list.               *)
(***************************************************************************)
C9_OrderIndependence ==
  op = "getAccountBalances" =>
    \A p \in Permutations(1..Len(entries)) :
      LET b == getAccountBalances(Permuted(entries, p))
      IN  /\ DOMAIN b = DOMAIN balances
          /\ \A a \in DOMAIN b : equals(b[a], balances[a])

C9_Witness ==
  /\ op = "getAccountBalances"
  /\ Len(entries) >= 2
  /\ entries[1] # entries[2]
  /\ entries[1].credit_account = entries[2].debit_account
  /\ entries[1].amount.c # 0
  /\ entries[2].amount.c # 0
  /\ getAccountBalances(<<entries[2], entries[1]>>) = balances

(***************************************************************************)
(* C10: verifyAccountingEquation returns true exactly when                 *)
(* assets = liabilities + equity + (income - expenses), assets and         *)
(* expenses being the sums of the raw balances of the accounts typed asset *)
(* and expense, and liabilities, equity and income the sums of the negated *)
(* raw balances of the accounts typed liability, equity and income.        *)
(***************************************************************************)
C10_EquationDecides ==
  op = "verifyAccountingEquation" =>
    ((returned = TRUE) <=>
       (TypeUnits(balances, accountTypes, "asset")
          = (- TypeUnits(balances, accountTypes, "liability"))
            + (- TypeUnits(balances, accountTypes, "equity"))
            + ((- TypeUnits(balances, accountTypes, "income"))
               - TypeUnits(balances, accountTypes, "expense"))))

C10_Witness ==
  /\ op = "verifyAccountingEquation"
  /\ returned = FALSE
  /\ \E a \in (DOMAIN balances) \cap (DOMAIN accountTypes) :
       accountTypes[a] = "income" /\ balances[a].c # 0
  /\ \E a \in (DOMAIN balances) \cap (DOMAIN accountTypes) :
       accountTypes[a] = "expense" /\ balances[a].c # 0

(* The classification types with the account a removed.                    *)
Without(types, a) == [x \in (DOMAIN types) \ {a} |-> types[x]]

(***************************************************************************)
(* C11 as stated: removing one referenced account from accountTypes leaves *)
(* what verifyAccountingEquation returns unchanged, and raises no error.   *)
(***************************************************************************)
C11_UnclassifiedNeitherHelpsNorHurts ==
  op = "verifyAccountingEquation" =>
    /\ raised = {}
    /\ \A a \in (DOMAIN balances) \cap (DOMAIN accountTypes) :
         verifyAccountingEquation(entries, Without(accountTypes, a)) = returned

(***************************************************************************)
(* C11 amended: an account absent from accountTypes enters no running      *)
(* total and raises no error; removing a referenced account from           *)
(* accountTypes leaves the result unchanged when its raw balance is zero,  *)
(* and turns a true result into false when its raw balance is not zero.    *)
(***************************************************************************)
C11_UnclassifiedExcluded ==
  op = "verifyAccountingEquation" =>
    /\ raised = {}
    /\ \A a \in (DOMAIN balances) \cap (DOMAIN accountTypes) :
         LET without == verifyAccountingEquation(entries, Without(accountTypes, a))
         IN  /\ balances[a].c = 0 => without = returned
             /\ (balances[a].c # 0 /\ returned = TRUE) => without = FALSE

C11_Witness ==
  /\ op = "verifyAccountingEquation"
  /\ returned = TRUE
  /\ Referenced(entries) \subseteq DOMAIN accountTypes
  /\ \E a \in DOMAIN balances :
       /\ balances[a].c # 0
       /\ ~ verifyAccountingEquation(entries, Without(accountTypes, a))
  /\ \E a \in DOMAIN balances :
       /\ balances[a].c = 0
       /\ verifyAccountingEquation(entries, Without(accountTypes, a))

(***************************************************************************)
(* C12: on the empty entry list isJournalBalanced returns true and         *)
(* getAccountBalances returns the mapping with no keys.                    *)
(***************************************************************************)
C12_EmptyInput ==
  entries = <<>> =>
    /\ op = "isJournalBalanced" => returned = TRUE
    /\ op = "getAccountBalances" => DOMAIN balances = {} /\ raised = {}

C12_Witness ==
  /\ entries = <<>>
  /\ op = "getAccountBalances"
  /\ returned = "balances"
  /\ DOMAIN balances = {}

(***************************************************************************)
(* C13: for a single entry with distinct accounts A (debit) and B (credit) *)
(* and amount x >= 0, getAccountBalances of the one-entry list is exactly  *)
(* {A: x, B: -x}, and isJournalBalanced of that list is true.              *)
(***************************************************************************)
C13_SingleEntryBalance ==
  (/\ Len(entries) = 1
   /\ entries[1].debit_account # entries[1].credit_account
   /\ entries[1].amount.c >= 0) =>
    LET A == entries[1].debit_account
        B == entries[1].credit_account
        x == Units(entries[1].amount)
    IN  /\ op = "isJournalBalanced" => returned = TRUE
        /\ op = "getAccountBalances" =>
             /\ DOMAIN balances = {A, B}
             /\ balances[A] = OfUnits(x)
             /\ balances[B] = OfUnits(0 - x)

C13_Witness ==
  /\ op = "getAccountBalances"
  /\ Len(entries) = 1
  /\ entries[1].debit_account # entries[1].credit_account
  /\ entries[1].amount.c > 0
  /\ balances[entries[1].debit_account].c > 0
  /\ balances[entries[1].credit_account].c < 0

(***************************************************************************)
(* C14: an overdrawn account is a valid output: when the amounts crediting *)
(* an account exceed the amounts debiting it, getAccountBalances returns   *)
(* normally, with no error, and reports that account's balance as the      *)
(* negative value debits minus credits.                                    *)
(***************************************************************************)
C14_OverdrawnIsValidOutput ==
  (op = "getAccountBalances" /\ WellFormed(entries)) =>
    \A a \in Codes :
      CreditedUnits(entries, a) > DebitedUnits(entries, a) =>
        /\ raised = {}
        /\ returned = "balances"
        /\ a \in DOMAIN balances
        /\ balances[a].c < 0
        /\ Units(balances[a]) = DebitedUnits(entries, a) - CreditedUnits(entries, a)

C14_Witness ==
  /\ op = "getAccountBalances"
  /\ WellFormed(entries)
  /\ raised = {}
  /\ \E a \in DOMAIN balances :
       /\ DebitedUnits(entries, a) = 0
       /\ CreditedUnits(entries, a) > Units([c |-> 1, e |-> 0])
       /\ Units(balances[a]) = 0 - CreditedUnits(entries, a)

(* The entries with amount 0.                                              *)
ZeroEntries == {z \in JournalEntry : z.amount.c = 0}

(***************************************************************************)
(* C17 as stated: appending an entry with amount 0, with any two account   *)
(* codes, raises no error and leaves the mapping returned by               *)
(* getAccountBalances unchanged.                                           *)
(***************************************************************************)
C17_ZeroAmountIsNoOp ==
  op = "getAccountBalances" =>
    /\ raised = {}
    /\ \A z \in ZeroEntries : getAccountBalances(Append(entries, z)) = balances

(***************************************************************************)
(* C17 amended: appending an entry with amount 0 raises no error and       *)
(* leaves every balance already in the mapping unchanged, but the entry's  *)
(* two account codes become keys: a code not referenced before is added    *)
(* with balance 0, so the mapping is unchanged only when both codes were   *)
(* referenced before.                                                      *)
(***************************************************************************)
C17_ZeroAmountKeepsBalances ==
  op = "getAccountBalances" =>
    /\ raised = {}
    /\ \A z \in ZeroEntries :
         LET after == getAccountBalances(Append(entries, z))
             codes == {z.debit_account, z.credit_account}
         IN  /\ DOMAIN after = (DOMAIN balances) \cup codes
             /\ \A a \in DOMAIN balances : after[a] = balances[a]
             /\ \A a \in codes \ DOMAIN balances : after[a] = Zero
             /\ (after = balances) <=> (codes \subseteq DOMAIN balances)

C17_Witness ==
  /\ op = "getAccountBalances"
  /\ Len(entries) >= 1
  /\ \E a \in DOMAIN balances : balances[a].c # 0
  /\ \E z \in ZeroEntries :
       /\ z.debit_account \notin DOMAIN balances
       /\ z.credit_account \in DOMAIN balances
       /\ DOMAIN getAccountBalances(Append(entries, z)) # DOMAIN balances

(* assets - (liabilities + equity + (income - expenses)) of the totals t,  *)
(* in units of the smallest amount.                                        *)
EquationGap(t) ==
  Units(t.assets)
    - (Units(t.liabilities) + Units(t.equity) + (Units(t.income) - Units(t.expenses)))

(***************************************************************************)
(* C16: the equation check uses exact equality with no tolerance: whenever *)
(* the asset total differs from liabilities + equity + (income - expenses) *)
(* by any non-zero amount, even one smallest unit, verifyAccountingEquation*)
(* returns false.                                                          *)
(***************************************************************************)
C16_NoTolerance ==
  (op = "verifyAccountingEquation" /\ EquationGap(totals) # 0) => returned = FALSE

C16_Witness ==
  /\ op = "verifyAccountingEquation"
  /\ EquationGap(totals) = 1
  /\ totals.assets.c # 0
  /\ returned = FALSE

(* The amount 0.1 and the sum 0.3, as decimals.                            *)
OneTenth == [c |-> 1, e |-> -1]

ThreeTenths == [c |-> 3, e |-> -1]

(* Three entries of amount 0.1 that debit the same account.                *)
ThreeTenthsDebited(es) ==
  /\ Len(es) = 3
  /\ \A i \in 1..3 : es[i].amount = OneTenth /\ es[i].debit_account = es[1].debit_account
  /\ \A i \in 1..3 : es[i].credit_account # es[1].debit_account

(***************************************************************************)
(* C15: amounts are accumulated in exact decimal arithmetic: three entries *)
(* of amount 0.1 debiting the same account give that account a balance     *)
(* exactly equal to 0.3, and the totals summed by isJournalBalanced are    *)
(* exactly 0.3.                                                            *)
(***************************************************************************)
C15_ExactDecimalSum ==
  ThreeTenthsDebited(entries) =>
    /\ op = "getAccountBalances" =>
         equals(balances[entries[1].debit_account], ThreeTenths)
    /\ op = "isJournalBalanced" =>
         /\ returned = TRUE
         /\ equals(totalDebit(entries), ThreeTenths)
         /\ equals(totalCredit(entries), ThreeTenths)

C15_Witness ==
  /\ op = "getAccountBalances"
  /\ ThreeTenthsDebited(entries)
  /\ balances[entries[1].debit_account] = ThreeTenths
  /\ \E a \in DOMAIN balances : balances[a].c < 0

(***************************************************************************)
(* C18: on every list of well-formed entries (amount >= 0) and with any    *)
(* classification, isJournalBalanced, getAccountBalances and               *)
(* verifyAccountingEquation each return a value and never raise an error.  *)
(***************************************************************************)
C18_NeverRaisesOnWellFormed ==
  (op # "none" /\ WellFormed(entries)) =>
    /\ raised = {}
    /\ op = "getAccountBalances" => returned = "balances"

(* The mapping debits minus credits of every account referenced by es.     *)
ExpectedBalances(es) ==
  [a \in Referenced(es) |-> OfUnits(DebitedUnits(es, a) - CreditedUnits(es, a))]

(* Whether the balances of the accounts that types classifies sum to zero. *)
ExpectedEquation(es, types) ==
  SumUnits(Referenced(es) \cap DOMAIN types, ExpectedBalances(es)) = 0

(***************************************************************************)
(* C19: the engine keeps no state between calls: in any sequence of calls  *)
(* each call's result is determined by its arguments alone, whatever calls *)
(* came before; the entry list is left unchanged; and no call modifies a   *)
(* mapping that an earlier call returned.                                  *)
(***************************************************************************)
C19_NoStateBetweenCalls ==
  [][ /\ entries' = entries
      /\ \A r \in 1..allocated : heap'[r] = heap[r]
      /\ raised' = {}
      /\ op' = "isJournalBalanced" => returned' = TRUE
      /\ op' = "getAccountBalances" => balances' = ExpectedBalances(entries)
      /\ op' = "verifyAccountingEquation" =>
           returned' = ExpectedEquation(entries, accountTypes') ]_vars

C19_Witness ==
  /\ op = "getAccountBalances"
  /\ allocated = MaxObjects
  /\ \E a \in DOMAIN balances : balances[a].c # 0
  /\ \A r \in 1..allocated : heap[r] = balances

(* Invocation k has run the callback on its whole list.                    *)
Finished(k) == frames[k].ref # 0 /\ frames[k].i = Len(frames[k].es)

(***************************************************************************)
(* C20: concurrent invocations are safe: for two invocations on different  *)
(* entry lists, whatever the interleaving of their per-entry steps, each   *)
(* invocation ends with the mapping it returns when run alone.             *)
(***************************************************************************)
C20_InterleavingsAgreeWithRunAlone ==
  \A k \in Invocations :
    Finished(k) =>
      /\ heap[frames[k].ref] = getAccountBalances(frames[k].es)
      /\ heap[frames[k].ref] = ExpectedBalances(frames[k].es)

C20_Witness ==
  /\ \A k \in Invocations : Finished(k) /\ Len(frames[k].es) = MaxParLen
  /\ frames[1].ref # frames[2].ref
  /\ heap[frames[1].ref] # heap[frames[2].ref]
  /\ \E a \in DOMAIN heap[frames[1].ref] : a \in DOMAIN heap[frames[2].ref]

(* The list es with the account codes of entry i replaced by d and c.      *)
Recoded(es, i, d, c) ==
  [es EXCEPT ![i] = [debit_account |-> d, credit_account |-> c, amount |-> es[i].amount]]

(* The list es with the two sides of every entry swapped.                  *)
SidesSwapped(es) ==
  [i \in 1..Len(es) |->
     [debit_account |-> es[i].credit_account,
      credit_account |-> es[i].debit_account,
      amount |-> es[i].amount]]

(***************************************************************************)
(* C21: the result of isJournalBalanced depends only on the multiset of    *)
(* entry amounts: it is the same for every permutation of the list, for    *)
(* every change of the debit and credit codes of an entry, and for the     *)
(* list with the two sides of its entries swapped.                         *)
(***************************************************************************)
C21_DependsOnAmountsOnly ==
  op = "isJournalBalanced" =>
    /\ \A p \in Permutations(1..Len(entries)) :
         isJournalBalanced(Permuted(entries, p)) = returned
    /\ \A i \in 1..Len(entries) : \A d \in Codes, c \in Codes :
         isJournalBalanced(Recoded(entries, i, d, c)) = returned
    /\ isJournalBalanced(SidesSwapped(entries)) = returned

C21_Witness ==
  /\ op = "isJournalBalanced"
  /\ returned = TRUE
  /\ Len(entries) = 2
  /\ entries[1].amount # entries[2].amount
  /\ entries[1].debit_account = entries[1].credit_account
  /\ entries[1].amount.c # 0
  /\ entries[2].debit_account # entries[2].credit_account

(* What verifyAccountingEquation returns once line 46 has given it the     *)
(* balances b.                                                             *)
equationOn(b, types) ==
  LET t == forEachBalance(1, b, types, ZeroTotals) IN equals(leftSide(t), rightSide(t))

(* The classification types with account a given type t.                   *)
With(types, a, t) ==
  [x \in (DOMAIN types) \cup {a} |-> IF x = a THEN t ELSE types[x]]

(***************************************************************************)
(* C22: only accounts that are both referenced by an entry and present in  *)
(* accountTypes enter the equation check: adding to accountTypes a         *)
(* classification, of any type, for an account code that no entry          *)
(* references leaves the result of verifyAccountingEquation unchanged (and *)
(* so does removing one).                                                  *)
(***************************************************************************)
C22_UnreferencedClassificationIgnored ==
  op = "verifyAccountingEquation" =>
    \A a \in Codes \ Referenced(entries) :
      /\ a \notin DOMAIN accountTypes =>
           \A t \in AccountType :
             equationOn(balances, With(accountTypes, a, t)) = returned
      /\ a \in DOMAIN accountTypes =>
           equationOn(balances, Without(accountTypes, a)) = returned

C22_Witness ==
  /\ op = "verifyAccountingEquation"
  /\ returned = TRUE
  /\ entries # <<>>
  /\ Referenced(entries) \subseteq DOMAIN accountTypes
  /\ \E a \in Codes \ Referenced(entries) :
       /\ a \notin DOMAIN accountTypes
       /\ verifyAccountingEquation(entries, With(accountTypes, a, "asset"))

(* The call has returned.                                                  *)
Returned == pass.pc = "done"

NotSelfReferencing(es) == SelectSeq(es, LAMBDA en : en.debit_account # en.credit_account)

(* The accounts that some entry of es has on both sides.                   *)
SelfReferenced(es) ==
  {es[i].debit_account : i \in {n \in 1..Len(es) : es[n].debit_account = es[n].credit_account}}

(***************************************************************************)
(* C24: the code does not guard against self-referencing entries: an entry *)
(* whose debit and credit account are the same account A is accepted       *)
(* without error, changes A's balance by zero, and makes A a key of the    *)
(* returned mapping even if no other entry references A.                   *)
(***************************************************************************)
C24_SelfReferencingAccepted ==
  op = "getAccountBalances" =>
    \A a \in SelfReferenced(entries) :
      /\ raised = {}
      /\ returned = "balances"
      /\ a \in DOMAIN balances
      /\ Units(balances[a])
           = DebitedUnits(NotSelfReferencing(entries), a)
             - CreditedUnits(NotSelfReferencing(entries), a)
      /\ a \notin Referenced(NotSelfReferencing(entries)) => balances[a] = Zero

C24_Witness ==
  /\ op = "getAccountBalances"
  /\ raised = {}
  /\ Len(entries) = 2
  /\ \E a \in SelfReferenced(entries) :
       /\ a \notin Referenced(NotSelfReferencing(entries))
       /\ \E i \in 1..Len(entries) :
            entries[i].debit_account = a /\ entries[i].amount.c > 0
       /\ balances[a] = Zero
  /\ \E a \in DOMAIN balances : balances[a].c # 0

(* The k first entries of es.                                              *)
Prefix(es, k) == SubSeq(es, 1, k)

(* The entries of es after the k first.                                    *)
Suffix(es, k) == SubSeq(es, k + 1, Len(es))

(***************************************************************************)
(* C25: conservation: for every entry list, whatever the signs of the      *)
(* amounts and whether or not entries are self-referencing, the balances   *)
(* in the mapping returned by getAccountBalances sum to exactly zero, and  *)
(* so do the balances after each entry is processed.                       *)
(***************************************************************************)
C25_BalancesSumToZero ==
  op = "getAccountBalances" =>
    /\ SumUnits(DOMAIN balances, balances) = 0
    /\ \A k \in 0..Len(entries) :
         LET b == getAccountBalances(Prefix(entries, k))
         IN  SumUnits(DOMAIN b, b) = 0

C25_Witness ==
  /\ op = "getAccountBalances"
  /\ Len(entries) = 2
  /\ entries[1].amount.c < 0
  /\ entries[1].debit_account # entries[1].credit_account
  /\ entries[2].amount.c > 0
  /\ Cardinality(DOMAIN balances) = 3
  /\ \A a \in DOMAIN balances : balances[a].c # 0
  /\ SumUnits(DOMAIN balances, balances) = 0

(* The balance of account a in mapping b, in units; 0 for a missing key.   *)
UnitsAt(b, a) == IF a \in DOMAIN b THEN Units(b[a]) ELSE 0

(***************************************************************************)
(* C27: getAccountBalances is additive over concatenation: for every split *)
(* of the entry list into xs and ys and every account a, the balance of a  *)
(* for xs ++ ys is the balance of a for xs plus the balance of a for ys (a *)
(* missing key counting as 0), and the key set for xs ++ ys is the union   *)
(* of the two key sets.                                                    *)
(***************************************************************************)
C27_AdditiveOverConcatenation ==
  op = "getAccountBalances" =>
    \A k \in 0..Len(entries) :
      LET xs == getAccountBalances(Prefix(entries, k))
          ys == getAccountBalances(Suffix(entries, k))
      IN  /\ DOMAIN balances = (DOMAIN xs) \cup (DOMAIN ys)
          /\ \A a \in Codes : UnitsAt(balances, a) = UnitsAt(xs, a) + UnitsAt(ys, a)

C27_Witness ==
  /\ op = "getAccountBalances"
  /\ Len(entries) = 2
  /\ LET xs == getAccountBalances(Prefix(entries, 1))
         ys == getAccountBalances(Suffix(entries, 1))
     IN  /\ \E a \in (DOMAIN xs) \cap (DOMAIN ys) :
              xs[a].c # 0 /\ ys[a].c # 0 /\ balances[a].c # 0
         /\ (DOMAIN xs) \ (DOMAIN ys) # {}
         /\ (DOMAIN ys) \ (DOMAIN xs) # {}

(* The entry en with its sides swapped and its amount negated.             *)
Reversed(en) ==
  [debit_account |-> en.credit_account,
   credit_account |-> en.debit_account,
   amount |-> negated(en.amount)]

(***************************************************************************)
(* C28: negative amounts are accepted and treated as reversed entries: an  *)
(* entry (debit A, credit B, amount -x) changes the balances returned by   *)
(* getAccountBalances exactly as the entry (debit B, credit A, amount x)   *)
(* does, and isJournalBalanced returns true for a list containing it.      *)
(***************************************************************************)
C28_NegativeAmountIsReversedEntry ==
  (\E i \in 1..Len(entries) : entries[i].amount.c < 0) =>
    /\ op = "isJournalBalanced" => returned = TRUE
    /\ op = "getAccountBalances" =>
         /\ raised = {}
         /\ returned = "balances"
         /\ \A i \in 1..Len(entries) :
              entries[i].amount.c < 0 =>
                getAccountBalances([entries EXCEPT ![i] = Reversed(entries[i])]) = balances

C28_Witness ==
  /\ op = "getAccountBalances"
  /\ Len(entries) = 2
  /\ entries[1].amount.c > 0
  /\ entries[2].amount.c < 0
  /\ entries[2].debit_account # entries[2].credit_account
  /\ balances[entries[2].debit_account].c < 0
  /\ balances[entries[2].credit_account].c > 0
  /\ getAccountBalances([entries EXCEPT ![2] = Reversed(entries[2])]) = balances

(* The sum of the raw balances of the accounts of S, in units.             *)
RawSum(S) == SumUnits(S \cap DOMAIN balances, balances)

(***************************************************************************)
(* C26: the result of verifyAccountingEquation depends only on which       *)
(* referenced accounts are classified, not on the type given to them: it   *)
(* is true if and only if the raw balances of the accounts that are both   *)
(* referenced and present in accountTypes sum to zero; giving a classified *)
(* account any other type leaves the result unchanged; and a list whose    *)
(* unclassified accounts have a non-zero total balance yields false.       *)
(***************************************************************************)
C26_DependsOnClassifiedKeysOnly ==
  op = "verifyAccountingEquation" =>
    /\ (returned = TRUE) <=> (RawSum(DOMAIN accountTypes) = 0)
    /\ \A a \in DOMAIN accountTypes : \A t \in AccountType :
         equationOn(balances, With(accountTypes, a, t)) = returned
    /\ RawSum(Codes \ DOMAIN accountTypes) # 0 => returned = FALSE

C26_Witness ==
  /\ op = "verifyAccountingEquation"
  /\ returned = FALSE
  /\ RawSum(Codes \ DOMAIN accountTypes) # 0
  /\ \E a \in (DOMAIN balances) \cap (DOMAIN accountTypes) :
       /\ accountTypes[a] = "liability"
       /\ balances[a].c # 0
       /\ equationOn(balances, With(accountTypes, a, "expense")) = FALSE

(* The sum of the amounts of the journal rows that debit account id.       *)
RECURSIVE JournalDebits(_, _)
JournalDebits(je, id) ==
  IF je = <<>> THEN 0
  ELSE (IF Head(je).debit_account_id = id THEN Head(je).amount ELSE 0)
       + JournalDebits(Tail(je), id)

(* The sum of the amounts of the journal rows that credit account id.      *)
RECURSIVE JournalCredits(_, _)
JournalCredits(je, id) ==
  IF je = <<>> THEN 0
  ELSE (IF Head(je).credit_account_id = id THEN Head(je).amount ELSE 0)
       + JournalCredits(Tail(je), id)

(* The sum of the stored balances of the accounts of S.                    *)
RECURSIVE SumBalance(_)
SumBalance(S) ==
  IF S = {} THEN 0
  ELSE LET id == CHOOSE x \in S : TRUE IN accounts[id].balance + SumBalance(S \ {id})

(* Every journal row references an account on both sides.                  *)
AllReferencesExist ==
  \A n \in 1..Len(journal_entries) :
    /\ journal_entries[n].debit_account_id \in DOMAIN accounts
    /\ journal_entries[n].credit_account_id \in DOMAIN accounts

(***************************************************************************)
(* C29: after recalculate_all_balances has run, every account's balance is *)
(* total debits - total credits of that account if its normal_balance is   *)
(* 'debit' and total credits - total debits otherwise; when every journal  *)
(* entry references an existing account on both sides, the balances of the *)
(* debit-normal accounts and of the credit-normal accounts have the same   *)
(* sum; and running the function again changes nothing.                    *)
(***************************************************************************)
C29_RecalculatedBalances ==
  op = "recalculate_all_balances" =>
    /\ \A id \in DOMAIN accounts :
         accounts[id].balance =
           (IF accounts[id].normal_balance = "debit"
            THEN JournalDebits(journal_entries, id) - JournalCredits(journal_entries, id)
            ELSE JournalCredits(journal_entries, id) - JournalDebits(journal_entries, id))
    /\ AllReferencesExist =>
         SumBalance({id \in DOMAIN accounts : accounts[id].normal_balance = "debit"})
           = SumBalance({id \in DOMAIN accounts : accounts[id].normal_balance = "credit"})
    /\ recalculate_all_balances(accounts, journal_entries) = accounts

C29_Witness ==
  /\ op = "recalculate_all_balances"
  /\ Len(journal_entries) = MaxRows
  /\ AllReferencesExist
  /\ \E d \in DOMAIN accounts, c \in DOMAIN accounts :
       /\ accounts[d].normal_balance = "debit"
       /\ accounts[c].normal_balance = "credit"
       /\ accounts[d].balance > 0
       /\ accounts[c].balance = accounts[d].balance

(* The amounts of the rows assigned to method id that satisfy the type     *)
(* test, summed.                                                           *)
RECURSIVE TxSum(_, _, _)
TxSum(rows, id, types) ==
  IF rows = <<>> THEN 0
  ELSE (IF Head(rows).payment_method_id = id /\ Head(rows).type \in types
        THEN Head(rows).amount ELSE 0)
       + TxSum(Tail(rows), id, types)

(***************************************************************************)
(* C30: under the update_payment_method_balance trigger, after any         *)
(* sequence of inserts and updates of transactions rows (updates may       *)
(* change amount, type or payment method), every payment method's balance  *)
(* is its initial balance plus the amounts of the current rows of type     *)
(* income or capital assigned to it minus the amounts of the current rows  *)
(* of type expense assigned to it.                                         *)
(***************************************************************************)
C30_BalanceFollowsCurrentRows ==
  \A id \in DOMAIN payment_methods :
    payment_methods[id].balance =
      InitialBalance[id]
        + TxSum(transactions, id, {"income", "capital"})
        - TxSum(transactions, id, {"expense"})

C30_Witness ==
  /\ op = "UPDATE"
  /\ Len(transactions) = MaxTx
  /\ \E n \in 1..Len(transactions) :
       transactions[n].type = "expense" /\ transactions[n].payment_method_id = "P1"
  /\ \E n \in 1..Len(transactions) :
       transactions[n].type = "capital" /\ transactions[n].payment_method_id = "P2"
  /\ \A id \in DOMAIN payment_methods : payment_methods[id].balance # InitialBalance[id]

============================================================================
